---- MODULE Spec2Model ----
(***************************************************************************)
(* SOS live tracker web client: the session-access workflow.               *)
(*                                                                         *)
(*   Session Validator    src/src/utils/TokenValidator.js                  *)
(*   Session Access Gate  src/src/components/SessionAccess.tsx (two        *)
(*                        iterations) and src/unnamed/part_003             *)
(*   Map View             src/src/components/MapTracker.tsx and            *)
(*                        src/unnamed/part_001                             *)
(*                                                                         *)
(* JavaScript values are encoded as follows.  A string slot that can be    *)
(* null or undefined holds the marker Null.  An optional non-string value  *)
(* (statusCode, sessionData) is a set with at most one element.            *)
(***************************************************************************)
EXTENDS Integers, Sequences, FiniteSets, TLC

Null == "null"

\* ------------------------------------------------------------------------
\* Input domains
\* ------------------------------------------------------------------------
SessionIds == {"", "s1"}
Tokens == {"", "abc123", "wrong"}
ProjectIds == {"", "proj"}
ApiKeys == {"", "key"}

\* ------------------------------------------------------------------------
\* The remote document store (external collaborator)
\* ------------------------------------------------------------------------
\* A numeric field in the store's typed encoding: kind is "doubleValue",
\* "integerValue" or "absent".
Wire(kind, n) == [kind |-> kind, n |-> n]

NoNumber == Wire("absent", 0)

\* The location substructure of a document.
Location(latitude, longitude, accuracy) ==
  [present |-> TRUE, latitude |-> latitude, longitude |-> longitude, accuracy |-> accuracy]

NoLocation ==
  [present |-> FALSE, latitude |-> NoNumber, longitude |-> NoNumber, accuracy |-> NoNumber]

\* A sos_sessions document as the store holds it.  exists = FALSE is the
\* absent document; hasFields = FALSE is a document without any field (the
\* REST representation then carries no "fields" member); accessToken = Null
\* is a document without an accessToken string field.
DocL(exists, hasFields, accessToken, location) ==
  [exists |-> exists, hasFields |-> hasFields, accessToken |-> accessToken,
   location |-> location]

Doc(exists, hasFields, accessToken) == DocL(exists, hasFields, accessToken, NoLocation)

NoDoc == Doc(FALSE, FALSE, Null)

\* (1.0, 2.0) with accuracy 15, written as doubles.
LocA == Location(Wire("doubleValue", 1), Wire("doubleValue", 2), Wire("doubleValue", 15))

\* (3, 4) without accuracy, written as integers.
LocB == Location(Wire("integerValue", 3), Wire("integerValue", 4), NoNumber)

DocStates ==
  { NoDoc,
    Doc(TRUE, FALSE, Null),
    Doc(TRUE, TRUE, Null),
    Doc(TRUE, TRUE, ""),
    Doc(TRUE, TRUE, "abc123") }

\* The documents the application is run against.
AppDocStates ==
  { NoDoc,
    DocL(TRUE, TRUE, Null, LocA),
    Doc(TRUE, TRUE, "abc123"),
    DocL(TRUE, TRUE, "abc123", LocA),
    DocL(TRUE, TRUE, "abc123", LocB) }

HTTP_OK == 200
HTTP_NOT_FOUND == 404
\* Statuses of failed requests: the rules deny the read, the store is down.
FaultStatuses == {403, 503}

\* A settled fetch(): either a Response (kind "http") or a rejection.
HttpResponse(status, body) ==
  [kind |-> "http", status |-> status, body |-> body, message |-> Null]

FetchRejected ==
  [kind |-> "reject", status |-> 0, body |-> NoDoc, message |-> "Failed to fetch"]

\* Response.ok
ResponseOk(response) == response.status >= 200 /\ response.status <= 299

\* What a GET of documents/sos_sessions/{id} can settle to while the store
\* holds doc: the store's own answer, or a failure on the way.
StoreAnswer(doc) ==
  IF doc.exists THEN HttpResponse(HTTP_OK, doc) ELSE HttpResponse(HTTP_NOT_FOUND, NoDoc)

TransportFaults ==
  {HttpResponse(status, NoDoc) : status \in FaultStatuses} \cup {FetchRejected}

GetResponses(doc) == {StoreAnswer(doc)} \cup TransportFaults

\* ------------------------------------------------------------------------
\* Session Validator: validateSosToken
\* ------------------------------------------------------------------------
ValidationResult(isValid, error, statusCode, sessionData) ==
  [isValid |-> isValid, error |-> error, statusCode |-> statusCode, sessionData |-> sessionData]

StatusText(status) ==
  CASE status = 403 -> "Forbidden"
    [] status = 503 -> "Service Unavailable"
    [] status = HTTP_NOT_FOUND -> "Not Found"
    [] OTHER -> ""

ApiError(status) == "API Error: " \o ToString(status) \o " " \o StatusText(status)

\* JavaScript truthiness of a string-or-undefined value.
Truthy(s) == s # Null /\ s # ""

\* Variant of the parameter check that forgets the token.
MissingParameters_IgnoreToken(sessionId, token, projectId, apiKey) ==
  ~Truthy(sessionId) \/ ~Truthy(projectId) \/ ~Truthy(apiKey)

\* The parameter check at the head of validateSosToken.
MissingParameters(sessionId, token, projectId, apiKey) ==
  ~Truthy(sessionId) \/ ~Truthy(token) \/ ~Truthy(projectId) \/ ~Truthy(apiKey)

MissingParametersResult ==
  ValidationResult(FALSE, "Missing required parameters", {}, {})

\* data?.fields?.accessToken?.stringValue
StoredAccessToken(data) == IF data.hasFields THEN data.accessToken ELSE Null

\* The catch block: fetch() rejected (or response.json() threw).
RejectedResult(response) ==
  ValidationResult(FALSE, response.message, {}, {})

\* Variant of the !response.ok block without the 404 case.
NotOkResult_No404(response) ==
  ValidationResult(FALSE, ApiError(response.status), {response.status}, {})

\* Variant of the !response.ok block that drops the status code.
NotOkResult_NoStatus(response) ==
  IF response.status = HTTP_NOT_FOUND
  THEN ValidationResult(FALSE, "Session not found", {response.status}, {})
  ELSE ValidationResult(FALSE, ApiError(response.status), {}, {})

\* The !response.ok block.
NotOkResult(response) ==
  IF response.status = HTTP_NOT_FOUND
  THEN ValidationResult(FALSE, "Session not found", {response.status}, {})
  ELSE ValidationResult(FALSE, ApiError(response.status), {response.status}, {})

\* Variant of the comparison that accepts any token once the document has
\* fields (the policy of the earlier validateSosToken).
TokenDecision_AnyToken(token, data) ==
  IF data.hasFields
  THEN ValidationResult(TRUE, Null, {}, {data})
  ELSE ValidationResult(FALSE, "Session not found", {}, {})

\* Variant of the comparison that authorizes a matching token without
\* attaching the document.
TokenDecision_NoData(token, data) ==
  LET storedAccessToken == StoredAccessToken(data)
  IN IF data.hasFields /\ Truthy(storedAccessToken)
     THEN IF storedAccessToken = token
          THEN ValidationResult(TRUE, Null, {}, {})
          ELSE ValidationResult(FALSE, "Invalid access token", {}, {})
     ELSE IF data.hasFields
     THEN ValidationResult(TRUE, Null, {}, {data})
     ELSE ValidationResult(FALSE, "Session not found", {}, {})

\* Variant of the comparison without the fallback for documents that have
\* no accessToken.
TokenDecision_Strict(token, data) ==
  LET storedAccessToken == StoredAccessToken(data)
  IN IF data.hasFields
     THEN IF storedAccessToken = token
          THEN ValidationResult(TRUE, Null, {}, {data})
          ELSE ValidationResult(FALSE, "Invalid access token", {}, {})
     ELSE ValidationResult(FALSE, "Session not found", {}, {})

\* The comparison of token with the fetched document's accessToken.
TokenDecision(token, data) ==
  LET storedAccessToken == StoredAccessToken(data)
  IN IF data.hasFields /\ Truthy(storedAccessToken)
     THEN IF storedAccessToken = token
          THEN ValidationResult(TRUE, Null, {}, {data})
          ELSE ValidationResult(FALSE, "Invalid access token", {}, {})
     ELSE IF data.hasFields
     THEN ValidationResult(TRUE, Null, {}, {data})
     ELSE ValidationResult(FALSE, "Session not found", {}, {})

\* validateSosToken from the settled fetch onwards.
validateSosTokenSettled(token, response) ==
  IF response.kind = "reject" THEN RejectedResult(response)
  ELSE IF ~ResponseOk(response) THEN NotOkResult(response)
  ELSE TokenDecision(token, response.body)

VARIABLES
  docs,          \* the store: session identifier -> document
  localStorage,  \* the browser's durable key/value store
  vpc,           \* validator call: "idle", "fetching", "done"
  vargs,         \* arguments of the current call
  vresponse,     \* the settled fetch of the current call, {} if none
  vdoc,          \* the document the store held when the fetch settled
  vresult,       \* the resolved value of the current call, {} until done
  vgets,         \* GET requests issued by the current call
  vprev          \* the previous completed call: {} or {[args, response, doc, result]}

VARIABLES
  accessLogs,    \* the store: session identifier -> the document's accessLogs array
  page,          \* the mounted route element: "none", "gate", "map", "login", "left"
  url,           \* the location: [sessionId (route parameter), token (query parameter)]
  gateVariant,   \* which SessionAccess the build contains; "none": /map link opened directly
  gpc,           \* SessionAccess effect: "start", "get", "patch", "done"
  isValidating,  \* SessionAccess state
  gateError,     \* SessionAccess state `error`
  gateGets,      \* document reads issued by the SessionAccess run
  gatePatches,   \* accessLogs writes issued by the SessionAccess run
  gateFetch      \* the settled document read of the run: {} or {[token, response]}

VARIABLES
  mapVariant,       \* which MapTracker the build contains: "v1" (MapTracker.tsx), "v2" (part_001)
  validatorVariant, \* which validateSosToken the build contains: "compare", "exists"
  authUser,         \* the identity the auth SDK holds (Null: nobody signed in)
  user,             \* AuthProvider state `user`
  session,          \* MapTracker state `session`
  loading,          \* MapTracker state `loading`
  mapError,         \* MapTracker state `error`
  statusMessage,    \* MapTracker state `statusMessage` (v2)
  mapRef,           \* MapTracker mapRef.current is set
  markerRef,        \* MapTracker markerRef.current: {} or {marker}
  circles,          \* the accuracy circles created, oldest first
  effects,          \* the runs of MapTracker's effect, oldest first
  inflight,         \* validate-and-fetch calls that have not settled, oldest first
  pollCount,        \* validate-and-fetch calls issued
  pushCount,        \* snapshot events delivered
  shown             \* how the value of `session` was obtained

VARIABLES
  interceptorVariant, \* which firebaseInterceptor the build contains: "v1", "v2"
  installed,          \* how many times setupFirebaseTokenInterceptor replaced window.fetch
  fetchInput,         \* the last window.fetch call: {} or {[input, wrappers]}
  forwarded           \* what that call handed to the browser's own fetch: {} or {request}

storeVars == <<docs, localStorage>>
validatorVars == <<vpc, vargs, vresponse, vdoc, vresult, vgets, vprev>>
gateVars == <<gateVariant, gpc, isValidating, gateError, gateGets, gatePatches, gateFetch>>
routeVars == <<page, url>>
interceptorVars == <<interceptorVariant, installed, fetchInput, forwarded>>
\* What the bundle contains and has put on window.
buildVars == <<mapVariant, validatorVariant, interceptorVars>>
viewVars == <<session, loading, mapError, statusMessage, mapRef, markerRef, circles, shown>>
fetchVars == <<effects, inflight, pollCount, pushCount>>
mapVars == <<buildVars, authUser, user, viewVars, fetchVars>>
appVars == <<accessLogs, routeVars, gateVars, mapVars>>
vars == <<storeVars, validatorVars, appVars>>

StoredSessionIds == SessionIds \ {""}

NoUrl == [sessionId |-> "", token |-> ""]

\* The view model's location: native numbers; accuracy is {} when undefined.
ViewLocation(latitude, longitude, accuracy) ==
  [present |-> TRUE, latitude |-> latitude, longitude |-> longitude, accuracy |-> accuracy]

NoViewLocation == [present |-> FALSE, latitude |-> 0, longitude |-> 0, accuracy |-> {}]

\* MapTracker's `session`: null until a document was received.
SessionData(location) == [loaded |-> TRUE, location |-> location]

NoSession == [loaded |-> FALSE, location |-> NoViewLocation]

\* Nothing has been put into `session` yet.
NotShown == [path |-> "none", token |-> Null, docToken |-> Null, seq |-> 0]

\* MapTracker as mounted, before its effect has run.
FreshMapTracker ==
  /\ session = NoSession
  /\ loading = TRUE
  /\ mapError = Null
  /\ statusMessage = "Preparing live tracker..."
  /\ mapRef = FALSE
  /\ markerRef = {}
  /\ circles = <<>>
  /\ shown = NotShown
  /\ effects = <<>>
  /\ inflight = <<>>
  /\ pollCount = 0
  /\ pushCount = 0

NoArgs == [sessionId |-> "", token |-> "", projectId |-> "", apiKey |-> ""]

EmptyStorage ==
  [sos_access_token |-> Null, sos_session_id |-> Null, emergency_public_access |-> Null]

\* Browser storage as an earlier visit may have left it.
StorageStates ==
  { EmptyStorage,
    [EmptyStorage EXCEPT !.sos_access_token = "abc123"],
    [EmptyStorage EXCEPT !.sos_access_token = "wrong"] }

InitValidator ==
  /\ docs \in [StoredSessionIds -> DocStates]
  /\ localStorage \in StorageStates
  /\ vpc = "idle"
  /\ vargs = NoArgs
  /\ vresponse = {}
  /\ vdoc = NoDoc
  /\ vresult = {}
  /\ vgets = 0
  /\ vprev = {}
  /\ accessLogs = [s \in StoredSessionIds |-> <<>>]
  /\ page = "none"
  /\ url = NoUrl
  /\ gateVariant = "none"
  /\ gpc = "start"
  /\ isValidating = TRUE
  /\ gateError = Null
  /\ gateGets = 0
  /\ gatePatches = 0
  /\ gateFetch = {}
  /\ mapVariant = "v2"
  /\ validatorVariant = "compare"
  /\ authUser = Null
  /\ user = Null
  /\ interceptorVariant = "v2"
  /\ installed = 1
  /\ fetchInput = {}
  /\ forwarded = {}
  /\ FreshMapTracker

\* The mobile app or the backend rewrites, creates or deletes the document.
StoreUpdate(s, d) ==
  /\ docs[s] # d
  /\ docs' = [docs EXCEPT ![s] = d]
  /\ accessLogs' = IF d.exists THEN accessLogs ELSE [accessLogs EXCEPT ![s] = <<>>]
  /\ UNCHANGED <<localStorage, validatorVars, routeVars, gateVars, mapVars>>

\* validateSosToken up to the await of fetch().
ValidateCall(sessionId, token, projectId, apiKey) ==
  /\ vpc = "idle"
  /\ vargs' = [sessionId |-> sessionId, token |-> token,
               projectId |-> projectId, apiKey |-> apiKey]
  /\ vresponse' = {}
  /\ vdoc' = NoDoc
  /\ IF MissingParameters(sessionId, token, projectId, apiKey)
     THEN /\ vresult' = {MissingParametersResult}
          /\ vgets' = 0
          /\ vpc' = "done"
     ELSE /\ vresult' = {}
          /\ vgets' = 1
          /\ vpc' = "fetching"
  /\ UNCHANGED <<docs, localStorage, vprev, appVars>>

\* Variant of the settling step in which an accepted token is used up: the
\* validator clears the document's accessToken.
ValidateSettle_ConsumesToken(response) ==
  /\ vpc = "fetching"
  /\ response \in GetResponses(docs[vargs.sessionId])
  /\ vresponse' = {response}
  /\ vdoc' = docs[vargs.sessionId]
  /\ vresult' = {validateSosTokenSettled(vargs.token, response)}
  /\ vpc' = "done"
  /\ docs' = IF validateSosTokenSettled(vargs.token, response).isValid
             THEN [docs EXCEPT ![vargs.sessionId].accessToken = Null]
             ELSE docs
  /\ UNCHANGED <<localStorage, vargs, vgets, vprev, appVars>>

\* The fetch settles and validateSosToken runs to its return.
ValidateSettle(response) ==
  /\ vpc = "fetching"
  /\ response \in GetResponses(docs[vargs.sessionId])
  /\ vresponse' = {response}
  /\ vdoc' = docs[vargs.sessionId]
  /\ vresult' = {validateSosTokenSettled(vargs.token, response)}
  /\ vpc' = "done"
  /\ UNCHANGED <<docs, localStorage, vargs, vgets, vprev, appVars>>

\* The caller takes the result; the call is remembered for comparison with
\* the next one.
ValidateReturn ==
  /\ vpc = "done"
  /\ vprev' = {[args |-> vargs, response |-> vresponse, doc |-> vdoc, result |-> vresult]}
  /\ vpc' = "idle"
  /\ UNCHANGED <<docs, localStorage, vargs, vresponse, vdoc, vresult, vgets, appVars>>

NextValidator ==
  \/ \E s \in StoredSessionIds, d \in DocStates : StoreUpdate(s, d)
  \/ \E sessionId \in SessionIds, token \in Tokens, projectId \in ProjectIds, apiKey \in ApiKeys :
       ValidateCall(sessionId, token, projectId, apiKey)
  \/ \E response \in UNION {GetResponses(d) : d \in DocStates} : ValidateSettle(response)
  \/ ValidateReturn

SpecValidator == InitValidator /\ [][NextValidator]_vars

\* ------------------------------------------------------------------------
\* Properties of the Session Validator (checked under SpecValidator)
\* ------------------------------------------------------------------------
\* The call has resolved after a fetch that settled with response r.
ResolvedWith(r) == vpc = "done" /\ vresponse = {r}

\* r is a successful response carrying a document with fields.
CarriesDocument(r) == r.kind = "http" /\ ResponseOk(r) /\ r.body.hasFields

C2_MatchAuthorized ==
  \A r \in vresponse :
    (ResolvedWith(r) /\ CarriesDocument(r)
       /\ Truthy(r.body.accessToken) /\ r.body.accessToken = vargs.token)
    => vresult = {ValidationResult(TRUE, Null, {}, {r.body})}

C2_Witness ==
  /\ ResolvedWith(HttpResponse(HTTP_OK, Doc(TRUE, TRUE, "abc123")))
  /\ vargs.token = "abc123"
  /\ vresult = {ValidationResult(TRUE, Null, {}, {Doc(TRUE, TRUE, "abc123")})}

\* The result a 404 response resolves to.
NotFoundResult == ValidationResult(FALSE, "Session not found", {HTTP_NOT_FOUND}, {})

\* C3 as stated: for a session identifier the store has no document for, the
\* call resolves to 'Session not found' whatever the token, the empty token
\* included.  (A call that resolved without a transport fault is looked at.)
C3_NotFoundAnyToken ==
  (/\ vpc = "done"
   /\ Truthy(vargs.sessionId) /\ Truthy(vargs.projectId) /\ Truthy(vargs.apiKey)
   /\ ~docs[vargs.sessionId].exists
   /\ vresponse \subseteq {HttpResponse(HTTP_NOT_FOUND, NoDoc)})
  => vresult = {NotFoundResult}

\* C3 amended: a 404 response resolves to isValid = false, 'Session not
\* found' for every token the request was made with; a call with the empty
\* token resolves to 'Missing required parameters' instead.
C3_NotFoundNonEmptyToken ==
  /\ ResolvedWith(HttpResponse(HTTP_NOT_FOUND, NoDoc)) => vresult = {NotFoundResult}
  /\ (vpc = "done" /\ vargs.token = "") => vresult = {MissingParametersResult}

C3_Witness ==
  /\ ResolvedWith(HttpResponse(HTTP_NOT_FOUND, NoDoc))
  /\ vargs.token = "wrong"
  /\ vresult = {NotFoundResult}

C5_MissingParameters ==
  (vpc # "idle" /\ (vargs.sessionId = "" \/ vargs.token = ""))
  => /\ vpc = "done"
     /\ vresult = {MissingParametersResult}
     /\ vgets = 0
     /\ vresponse = {}

C5_Witness ==
  /\ vpc = "done"
  /\ vargs.sessionId = "s1" /\ vargs.token = ""
  /\ vargs.projectId = "proj" /\ vargs.apiKey = "key"
  /\ vresult = {MissingParametersResult}

\* r is a transport failure: a non-success response other than 404, or a
\* fetch that rejected.
TransportFailure(r) ==
  r.kind = "reject" \/ (~ResponseOk(r) /\ r.status # HTTP_NOT_FOUND)

\* C6 as stated: every transport failure, a rejected fetch included, resolves
\* to isValid = false with a statusCode and sessionData = null.
C6_TransportErrorHasStatus ==
  \A r \in vresponse :
    (ResolvedWith(r) /\ TransportFailure(r))
    => \E result \in vresult :
         /\ ~result.isValid
         /\ result.statusCode # {}
         /\ result.sessionData = {}

\* C6 amended: a non-success response other than 404 resolves to isValid =
\* false, an error naming the status, statusCode = the response status and
\* sessionData = null; a fetch that rejects resolves to isValid = false with
\* the error's message, sessionData = null and no statusCode.
C6_TransportError ==
  \A r \in vresponse :
    /\ (ResolvedWith(r) /\ r.kind = "http" /\ ~ResponseOk(r) /\ r.status # HTTP_NOT_FOUND)
       => vresult = {ValidationResult(FALSE, ApiError(r.status), {r.status}, {})}
    /\ (ResolvedWith(r) /\ r.kind = "reject")
       => vresult = {ValidationResult(FALSE, r.message, {}, {})}

C6_Witness ==
  /\ ResolvedWith(HttpResponse(503, NoDoc))
  /\ vresult = {ValidationResult(FALSE, "API Error: 503 Service Unavailable", {503}, {})}

\* The store answered the recorded call itself (no transport fault).
AnsweredByStore(response, doc) == response = {StoreAnswer(doc)}

\* C7: a step of validateSosToken changes neither the store's documents nor
\* browser storage and issues one GET (none when a parameter is missing);
\* a call that repeats the previous call's arguments against an unchanged
\* document, both answered by the store, resolves to the same result.
C7_Idempotent ==
  [][ /\ (vpc' # vpc) => (docs' = docs /\ localStorage' = localStorage)
      /\ (vpc' = "done")
         => vgets' = (IF MissingParameters(vargs'.sessionId, vargs'.token,
                                           vargs'.projectId, vargs'.apiKey)
                      THEN 0 ELSE 1)
      /\ (vpc = "fetching" /\ vpc' = "done")
         => \A p \in vprev :
              (/\ p.args = vargs'
               /\ p.doc = vdoc'
               /\ AnsweredByStore(p.response, p.doc)
               /\ AnsweredByStore(vresponse', vdoc'))
              => vresult' = p.result
    ]_vars

C7_Witness ==
  /\ vpc = "done"
  /\ vgets = 1
  /\ vargs.token = "abc123"
  /\ AnsweredByStore(vresponse, vdoc)
  /\ \E p \in vprev :
       /\ p.args = vargs
       /\ p.doc = vdoc
       /\ AnsweredByStore(p.response, p.doc)
       /\ p.result = vresult
       /\ \E result \in vresult : result.isValid

\* ------------------------------------------------------------------------
\* Routing: the token in a link
\* ------------------------------------------------------------------------
\* Tokens a link can carry in its query string (as read by the page).
LinkTokens == Tokens \cup {"a+b"}

\* encodeURIComponent on the tokens of the model.
encodeURIComponent(s) ==
  CASE s = "a+b" -> "a%2Bb"
    [] s = "a b" -> "a%20b"
    [] OTHER -> s

\* searchParams.get('token') for a query string written as ?token=<raw>:
\* percent-escapes are decoded and '+' reads as a space.
QueryDecode(raw) ==
  CASE raw = "a%2Bb" -> "a+b"
    [] raw = "a%20b" -> "a b"
    [] raw = "a+b" -> "a b"
    [] raw = "a%252Bb" -> "a%2Bb"
    [] OTHER -> raw

\* The query-string form of a value, as URLSearchParams.set followed by
\* url.toString() writes it: a space becomes '+', reserved characters are
\* percent-escaped.
FormEncode(s) ==
  CASE s = "a+b" -> "a%2Bb"
    [] s = "a b" -> "a+b"
    [] s = "a%2Bb" -> "a%252Bb"
    [] OTHER -> s

\* addTokenToUrl(url, token): the raw value of the token parameter of the
\* returned URL, given the raw value in url (Null when url has none).
addTokenToUrl(raw, token) ==
  IF ~Truthy(token) THEN raw ELSE FormEncode(encodeURIComponent(token))

\* getAccessToken(): the value it returns for the raw token parameter of the
\* page's URL and the stored token.
getAccessToken(raw, storedToken) ==
  IF Truthy(QueryDecode(raw)) THEN QueryDecode(raw) ELSE storedToken

\* ------------------------------------------------------------------------
\* Session Access Gate: SessionAccess
\* ------------------------------------------------------------------------
GateVariants == {"simplified", "rest", "sdk"}

InvalidLinkMessage ==
  "Invalid emergency access link. Please check that you're using the complete link sent in the SOS message."

\* The message the gate shows when its catch block is reached.
GenericFailureMessage == "Failed to validate session access"

MissingTokenMessage ==
  "This emergency link is missing a required access token. Please use the complete link sent in the SOS message."

\* An accessLogs entry; written stands for its timestamp.
AccessLog(written, hasToken) ==
  [timestamp |-> written, type |-> "web_access", hasToken |-> hasToken]

\* An entry written by an earlier visit.
EarlierLog == AccessLog("earlier", TRUE)

\* The state the gate's render shows.
GateState ==
  IF gateVariant \in GateVariants /\ gpc = "done" /\ page \in {"map", "left"} THEN "Redirecting"
  ELSE IF ~isValidating /\ gateError # Null THEN "Failed"
  ELSE "Validating"

\* Variant of the failure that ends the validation without setting the error.
GateFail_NoMessage(message) ==
  /\ gateError' = gateError
  /\ isValidating' = FALSE
  /\ gpc' = "done"
  /\ UNCHANGED <<localStorage, page, url>>

\* setError(message); setIsValidating(false); return
GateFail(message) ==
  /\ gateError' = message
  /\ isValidating' = FALSE
  /\ gpc' = "done"
  /\ UNCHANGED <<localStorage, page, url>>

\* Variant of the redirect that navigates without writing to localStorage.
GateRedirect_NoStore(storage, rawToken) ==
  /\ localStorage' = localStorage
  /\ page' = "map"
  /\ url' = [sessionId |-> url.sessionId, token |-> QueryDecode(rawToken)]
  /\ gpc' = "done"
  /\ UNCHANGED <<isValidating, gateError>>

\* localStorage.setItem(...); navigate(`/map/${sessionId}?token=${rawToken}`)
GateRedirect(storage, rawToken) ==
  /\ localStorage' = storage
  /\ page' = "map"
  /\ url' = [sessionId |-> url.sessionId, token |-> QueryDecode(rawToken)]
  /\ gpc' = "done"
  /\ UNCHANGED <<isValidating, gateError>>

\* The simplified gate's effect: no request, no error state.
processSession ==
  /\ page = "gate" /\ gateVariant = "simplified" /\ gpc = "start"
  /\ IF ~Truthy(url.sessionId) \/ ~Truthy(url.token)
     THEN /\ gpc' = "done"
          /\ UNCHANGED <<localStorage, page, url, isValidating, gateError>>
     ELSE GateRedirect([localStorage EXCEPT !.sos_access_token = url.token,
                                            !.sos_session_id = url.sessionId],
                       encodeURIComponent(url.token))
  /\ UNCHANGED <<docs, accessLogs, gateVariant, gateGets, gatePatches, gateFetch, validatorVars, mapVars>>

\* The REST gate's effect up to the await of the document fetch.
validateSessionRest ==
  /\ page = "gate" /\ gateVariant = "rest" /\ gpc = "start"
  /\ IF ~Truthy(url.sessionId)
     THEN GateFail("Invalid session link") /\ UNCHANGED gateGets
     ELSE IF ~Truthy(url.token)
     THEN GateFail(MissingTokenMessage) /\ UNCHANGED gateGets
     ELSE /\ gateGets' = gateGets + 1
          /\ gpc' = "get"
          /\ UNCHANGED <<localStorage, page, url, isValidating, gateError>>
  /\ UNCHANGED <<docs, accessLogs, gateVariant, gatePatches, gateFetch, validatorVars, mapVars>>

\* The SDK gate's effect up to the await of getDoc: the token is not looked
\* at before the read.
validateSessionSdk ==
  /\ page = "gate" /\ gateVariant = "sdk" /\ gpc = "start"
  /\ IF ~Truthy(url.sessionId)
     THEN GateFail("Invalid session link") /\ UNCHANGED gateGets
     ELSE /\ gateGets' = gateGets + 1
          /\ gpc' = "get"
          /\ UNCHANGED <<localStorage, page, url, isValidating, gateError>>
  /\ UNCHANGED <<docs, accessLogs, gateVariant, gatePatches, gateFetch, validatorVars, mapVars>>

\* responseData.fields?.accessToken?.stringValue || ''
RestGateToken(data) == IF Truthy(StoredAccessToken(data)) THEN StoredAccessToken(data) ELSE ""

\* The REST gate accepts the fetched document for the link's token.
RestGateAccepts(token, response) ==
  /\ response.kind = "http"
  /\ ResponseOk(response)
  /\ token = RestGateToken(response.body)

\* The SDK gate: !(!isValidAccess && sessionData.accessToken)
SdkGateAccepts(token, data) ==
  \/ (Truthy(token) /\ token = StoredAccessToken(data))
  \/ ~Truthy(StoredAccessToken(data))

\* The document read settles and the gate runs to its next await.
GateGetSettle(response) ==
  /\ page = "gate" /\ gpc = "get"
  /\ response \in GetResponses(docs[url.sessionId])
  /\ gateFetch' = {[token |-> url.token, response |-> response]}
  /\ IF response.kind = "reject" \/ (gateVariant = "sdk" /\ response.status \in FaultStatuses)
     THEN GateFail(GenericFailureMessage) /\ UNCHANGED gatePatches
     ELSE IF gateVariant = "rest" /\ ~RestGateAccepts(url.token, response)
     THEN GateFail(InvalidLinkMessage) /\ UNCHANGED gatePatches
     ELSE IF gateVariant = "sdk" /\ ~ResponseOk(response)
     THEN GateFail("SOS session not found") /\ UNCHANGED gatePatches
     ELSE IF gateVariant = "sdk" /\ ~SdkGateAccepts(url.token, response.body)
     THEN GateFail(InvalidLinkMessage) /\ UNCHANGED gatePatches
     ELSE /\ gatePatches' = gatePatches + 1
          /\ gpc' = "patch"
          /\ UNCHANGED <<localStorage, page, url, isValidating, gateError>>
  /\ UNCHANGED <<docs, accessLogs, gateVariant, gateGets, validatorVars, mapVars>>

\* The accessLogs array after the gate's write was applied: the REST PATCH
\* sends a one-element array under an update mask, the SDK sends arrayUnion.
LoggedAccess(logs) ==
  IF gateVariant = "rest"
  THEN <<AccessLog("now", TRUE)>>
  ELSE Append(logs, AccessLog("now", Truthy(url.token)))

\* Variant of the settling step in which a failed accessLogs write reaches
\* the outer catch block.
GatePatchSettle_FailsOnError(applied) ==
  /\ page = "gate" /\ gpc = "patch"
  /\ applied => docs[url.sessionId].exists
  /\ accessLogs' = IF applied
                   THEN [accessLogs EXCEPT ![url.sessionId] = LoggedAccess(@)]
                   ELSE accessLogs
  /\ IF ~applied
     THEN GateFail(GenericFailureMessage)
     ELSE IF gateVariant = "rest" \/ Truthy(url.token)
     THEN GateRedirect([sos_session_id |-> url.sessionId,
                        emergency_public_access |-> "true",
                        sos_access_token |-> url.token],
                       url.token)
     ELSE /\ localStorage' = [localStorage EXCEPT !.sos_session_id = url.sessionId,
                                                  !.emergency_public_access = "true"]
          /\ gateError' = MissingTokenMessage
          /\ isValidating' = FALSE
          /\ gpc' = "done"
          /\ UNCHANGED <<page, url>>
  /\ UNCHANGED <<docs, gateVariant, gateGets, gatePatches, gateFetch, validatorVars, mapVars>>

\* The accessLogs write settles (applied or not; a failure is only logged)
\* and the gate runs to its end.
GatePatchSettle(applied) ==
  /\ page = "gate" /\ gpc = "patch"
  /\ applied => docs[url.sessionId].exists
  /\ accessLogs' = IF applied
                   THEN [accessLogs EXCEPT ![url.sessionId] = LoggedAccess(@)]
                   ELSE accessLogs
  /\ IF gateVariant = "rest" \/ Truthy(url.token)
     THEN GateRedirect([sos_session_id |-> url.sessionId,
                        emergency_public_access |-> "true",
                        sos_access_token |-> url.token],
                       url.token)
     ELSE /\ localStorage' = [localStorage EXCEPT !.sos_session_id = url.sessionId,
                                                  !.emergency_public_access = "true"]
          /\ gateError' = MissingTokenMessage
          /\ isValidating' = FALSE
          /\ gpc' = "done"
          /\ UNCHANGED <<page, url>>
  /\ UNCHANGED <<docs, gateVariant, gateGets, gatePatches, gateFetch, validatorVars, mapVars>>

\* The error view's "Go to Login" button.
GoToLogin ==
  /\ page = "gate" /\ ~isValidating /\ gateError # Null
  /\ page' = "login"
  /\ UNCHANGED <<storeVars, validatorVars, accessLogs, url, gateVars, mapVars>>

\* ------------------------------------------------------------------------
\* Map View: MapTracker (pure parts)
\* ------------------------------------------------------------------------
MapVariants == {"v1", "v2"}

ValidatorVariants == {"compare", "exists"}

\* import.meta.env.VITE_FIREBASE_PROJECT_ID / VITE_FIREBASE_API_KEY
EnvProjectId == "proj"

EnvApiKey == "key"

\* The earlier validateSosToken from the settled fetch onwards: any
\* successful response authorizes.
validateSosTokenEarlierSettled(token, response) ==
  IF response.kind = "reject" THEN RejectedResult(response)
  ELSE IF ~ResponseOk(response) THEN NotOkResult(response)
  ELSE ValidationResult(TRUE, Null, {}, {response.body})

\* validateSosToken(sessionId, token, projectId, apiKey) as the Map View
\* calls it, given what its fetch (if any) settled to.
MapValidation(token, response) ==
  IF MissingParameters(url.sessionId, token, EnvProjectId, EnvApiKey)
  THEN MissingParametersResult
  ELSE IF validatorVariant = "compare"
  THEN validateSosTokenSettled(token, response)
  ELSE validateSosTokenEarlierSettled(token, response)

\* readNumber: {} stands for undefined.
readNumber(value) ==
  IF value.kind \in {"doubleValue", "integerValue"} THEN {value.n} ELSE {}

\* value?.doubleValue || 0
DoubleOrZero(value) == IF value.kind = "doubleValue" THEN value.n ELSE 0

\* value?.doubleValue
DoubleOrUndefined(value) == IF value.kind = "doubleValue" THEN {value.n} ELSE {}

\* The one element of a non-empty optional value.
The(optional) == CHOOSE x \in optional : TRUE

\* fetchSessionData's conversion of the REST document (MapTracker.tsx).
ConvertV1(raw) ==
  SessionData(
    IF raw.hasFields /\ raw.location.present
    THEN ViewLocation(DoubleOrZero(raw.location.latitude),
                      DoubleOrZero(raw.location.longitude),
                      DoubleOrUndefined(raw.location.accuracy))
    ELSE NoViewLocation)

\* fetchSessionData's conversion of the REST document (part_001).
ConvertV2(raw) ==
  SessionData(
    IF /\ raw.hasFields /\ raw.location.present
       /\ readNumber(raw.location.latitude) # {}
       /\ readNumber(raw.location.longitude) # {}
    THEN ViewLocation(The(readNumber(raw.location.latitude)),
                      The(readNumber(raw.location.longitude)),
                      readNumber(raw.location.accuracy))
    ELSE NoViewLocation)

\* snapshot.data(): the SDK hands the document over with native values.
SnapshotData(d) ==
  SessionData(
    IF d.hasFields /\ d.location.present
    THEN ViewLocation(d.location.latitude.n, d.location.longitude.n,
                      IF d.location.accuracy.kind = "absent"
                      THEN {} ELSE {d.location.accuracy.n})
    ELSE NoViewLocation)

\* What fetchSessionData returns for a validation result: {} stands for null.
FetchedSession(validation) ==
  IF ~validation.isValid THEN {}
  ELSE IF mapVariant = "v1" THEN {ConvertV1(The(validation.sessionData))}
  ELSE IF validation.sessionData = {} THEN {}
  ELSE {ConvertV2(The(validation.sessionData))}

Marker(latitude, longitude, onMap) ==
  [latitude |-> latitude, longitude |-> longitude, onMap |-> onMap]

Circle(radius, onMap) == [radius |-> radius, onMap |-> onMap]

\* Math.max(accuracy, 10)
MinRadius == 10

Max(a, b) == IF a >= b THEN a ELSE b

\* updateMapMarker (MapTracker.tsx): markerRef.current afterwards.
MarkerAfterV1(data) ==
  IF ~data.location.present THEN markerRef
  ELSE IF markerRef = {}
  THEN {Marker(data.location.latitude, data.location.longitude, mapRef)}
  ELSE {Marker(data.location.latitude, data.location.longitude, m.onMap) : m \in markerRef}

\* updateMapMarker (MapTracker.tsx): a new circle for every update that
\* carries a truthy accuracy.
CirclesAfterV1(data) ==
  IF data.location.present /\ data.location.accuracy # {} /\ data.location.accuracy # {0}
  THEN Append(circles, Circle(The(data.location.accuracy), mapRef))
  ELSE circles

\* Variant of part_001's updateMapMarker that constructs a marker for every
\* update and leaves the earlier ones in place.
MarkerAfterV2_AlwaysNew(data) ==
  IF ~data.location.present \/ ~mapRef THEN markerRef
  ELSE markerRef \cup {Marker(data.location.latitude, data.location.longitude, TRUE)}

\* updateMapMarker (part_001): markerRef.current afterwards.
MarkerAfterV2(data) ==
  IF ~data.location.present \/ ~mapRef THEN markerRef
  ELSE IF markerRef = {}
  THEN {Marker(data.location.latitude, data.location.longitude, TRUE)}
  ELSE {Marker(data.location.latitude, data.location.longitude, m.onMap) : m \in markerRef}

\* updateMapMarker (part_001): accuracyCircleRef.current afterwards, as a
\* sequence of at most one circle.
CirclesAfterV2(data) ==
  IF ~data.location.present \/ ~mapRef THEN circles
  ELSE IF data.location.accuracy # {} /\ The(data.location.accuracy) > 0
  THEN <<Circle(Max(The(data.location.accuracy), MinRadius), TRUE)>>
  ELSE IF circles # <<>> THEN <<Circle(circles[1].radius, FALSE)>>
  ELSE circles

\* Variant of the token resolution that prefers the stored token.
ResolveToken_StoredFirst(urlToken, storedToken) ==
  IF Truthy(storedToken) THEN storedToken ELSE urlToken

\* urlToken || localStorage.getItem('sos_access_token')
ResolveToken(urlToken, storedToken) == IF Truthy(urlToken) THEN urlToken ELSE storedToken

\* Variant of the effect's token check that is always satisfied.
MissingAccessToken_Never(urlToken, storedToken) == FALSE

\* Variant of the effect's token check that tests for null instead of
\* falsiness.
MissingAccessToken_NullOnly(urlToken, storedToken) ==
  urlToken = Null /\ storedToken = Null

\* The effect's token check: neither the URL nor storage has a token.
MissingAccessToken(urlToken, storedToken) == ~Truthy(ResolveToken(urlToken, storedToken))

\* ------------------------------------------------------------------------
\* Map View: MapTracker (effect, callbacks, timers)
\* ------------------------------------------------------------------------
MaxPolls == 2
MaxPushes == 2

\* One run of the effect: the user and token it closed over, where its async
\* body stands ("load", "poll0", "live", "end"), whether its cleanup ran,
\* and the listener and timers it holds.
Effect(u, token) ==
  [user |-> u, token |-> token, pc |-> "load", cleaned |-> FALSE,
   subscribed |-> FALSE, timer |-> FALSE, mapTimer |-> FALSE]

\* A run that returned before its async body.
EndedEffect(u) == [Effect(u, Null) EXCEPT !.pc = "end"]

\* The effect's cleanup function applied to the latest run.
Cleanup(effs) ==
  IF effs = <<>> THEN effs
  ELSE [effs EXCEPT ![Len(effs)] =
          [@ EXCEPT !.cleaned = TRUE, !.subscribed = FALSE, !.timer = FALSE]]

\* How a displayed session was obtained; seq is the number of the poll that
\* brought it (0 for a push).
Shown(path, token, d) ==
  [path |-> path, token |-> token, docToken |-> StoredAccessToken(d), seq |-> 0]

ViewUnchanged == UNCHANGED <<session, loading, mapError, statusMessage, markerRef, circles, shown>>

\* setError(message) with setLoading / setStatusMessage as given; state
\* setters do nothing once the component is unmounted.
ShowError(message, newLoading, newStatus) ==
  IF page = "map"
  THEN /\ mapError' = message
       /\ loading' = newLoading
       /\ statusMessage' = newStatus
       /\ UNCHANGED <<session, markerRef, circles, shown>>
  ELSE ViewUnchanged

\* A session arrives: setSession, updateMapMarker, setLoading(false) and, in
\* part_001 (handleIncomingSession), setStatusMessage('') and setError(null).
Receive(data, how) ==
  IF mapVariant = "v1"
  THEN /\ markerRef' = MarkerAfterV1(data)
       /\ circles' = CirclesAfterV1(data)
       /\ IF page = "map"
          THEN session' = data /\ loading' = FALSE /\ shown' = how
          ELSE UNCHANGED <<session, loading, shown>>
       /\ UNCHANGED <<mapError, statusMessage>>
  ELSE /\ markerRef' = MarkerAfterV2(data)
       /\ circles' = CirclesAfterV2(data)
       /\ session' = data
       /\ loading' = FALSE
       /\ statusMessage' = ""
       /\ mapError' = Null
       /\ shown' = how

\* The MissingToken message of the build's MapTracker.
MissingAccessTokenMessage ==
  IF mapVariant = "v1"
  THEN "Missing access token. Please use the complete emergency link sent in the SOS message."
  ELSE "Missing access token. Please use the complete emergency link."

\* The synchronous head of the effect, appended to the runs in base, with u
\* the user the render saw.
StartEffect(base, u) ==
  IF ~Truthy(url.sessionId)
  THEN /\ effects' = Append(base, EndedEffect(u))
       /\ ShowError(IF mapVariant = "v1" THEN "No session ID provided"
                                         ELSE "No session ID provided.",
                    FALSE, statusMessage)
       /\ UNCHANGED localStorage
  ELSE IF MissingAccessToken(url.token, localStorage.sos_access_token)
  THEN /\ effects' = Append(base, EndedEffect(u))
       /\ ShowError(MissingAccessTokenMessage, FALSE,
                    IF mapVariant = "v1" THEN statusMessage ELSE "")
       /\ UNCHANGED localStorage
  ELSE /\ effects' = Append(base, Effect(u, ResolveToken(url.token, localStorage.sos_access_token)))
       /\ localStorage' = IF Truthy(url.token)
                          THEN [localStorage EXCEPT !.sos_access_token = url.token]
                          ELSE localStorage
       /\ statusMessage' = IF mapVariant = "v1" THEN statusMessage ELSE "Loading map..."
       /\ UNCHANGED <<session, loading, mapError, markerRef, circles, shown>>

\* The effect runs after MapTracker's first render.
MapEffectStart ==
  /\ page = "map" /\ effects = <<>>
  /\ StartEffect(<<>>, user)
  /\ UNCHANGED <<docs, validatorVars, accessLogs, routeVars, gateVars, buildVars,
                 authUser, user, mapRef, inflight, pollCount, pushCount>>

\* onAuthStateChanged delivers the signed-in user; part_001's effect depends
\* on `user`, so its cleanup runs and the effect starts again.
AuthStateChanged ==
  /\ user # authUser
  /\ user' = authUser
  /\ IF page = "map" /\ mapVariant = "v2" /\ effects # <<>>
     THEN /\ StartEffect(Cleanup(effects), authUser)
          /\ UNCHANGED <<mapRef, inflight, pollCount, pushCount>>
     ELSE UNCHANGED <<localStorage, viewVars, fetchVars>>
  /\ UNCHANGED <<docs, validatorVars, accessLogs, routeVars, gateVars, buildVars, authUser>>

\* fetchSessionData is called: one more validateSosToken call is in flight.
IssuePoll(i, first, token) ==
  /\ inflight' = Append(inflight, [eff |-> i, first |-> first, token |-> token,
                                   seq |-> pollCount + 1])
  /\ pollCount' = pollCount + 1

\* The token a poll of run i validates: MapTracker.tsx reads the URL and
\* storage on every poll, part_001 uses the token the run resolved.
PollToken(i) ==
  IF mapVariant = "v1"
  THEN ResolveToken(url.token, localStorage.sos_access_token)
  ELSE effects[i].token

\* After the maps script loaded: subscribe (signed-in) or make the first poll.
Connect(i, run) ==
  IF effects[i].user # Null
  THEN /\ effects' = [effects EXCEPT ![i] = [run EXCEPT !.subscribed = TRUE, !.pc = "live"]]
       /\ UNCHANGED <<inflight, pollCount>>
  ELSE /\ effects' = [effects EXCEPT ![i] = [run EXCEPT !.pc = "poll0"]]
       /\ IssuePoll(i, TRUE, PollToken(i))

\* loader.load() / ensureMapReady() settles for run i and the async body
\* continues to its next await.
SdkLoaded(i, ok) ==
  /\ i \in DOMAIN effects
  /\ effects[i].pc = "load"
  /\ IF mapVariant = "v1"
     THEN IF ok
          THEN /\ Connect(i, [effects[i] EXCEPT !.mapTimer = TRUE])
               /\ ViewUnchanged
               /\ UNCHANGED mapRef
          ELSE /\ effects' = [effects EXCEPT ![i].pc = "end"]
               /\ ShowError("Error initializing map", FALSE, statusMessage)
               /\ UNCHANGED <<mapRef, inflight, pollCount>>
     ELSE IF ok
          THEN /\ mapRef' = TRUE
               /\ IF effects[i].cleaned
                  THEN /\ effects' = [effects EXCEPT ![i].pc = "end"]
                       /\ ViewUnchanged
                       /\ UNCHANGED <<inflight, pollCount>>
                  ELSE /\ Connect(i, effects[i])
                       /\ statusMessage' = "Connecting to live updates..."
                       /\ UNCHANGED <<session, loading, mapError, markerRef, circles, shown>>
          ELSE /\ ~mapRef
               /\ effects' = [effects EXCEPT ![i].pc = "end"]
               /\ IF effects[i].cleaned
                  THEN ViewUnchanged
                  ELSE ShowError("Map container element not found.", FALSE, "")
               /\ UNCHANGED <<mapRef, inflight, pollCount>>
  /\ UNCHANGED <<storeVars, validatorVars, accessLogs, routeVars, gateVars, buildVars,
                 authUser, user, pushCount>>

\* MapTracker.tsx: the one-second timer creates the map if the #map element
\* is rendered, which it is only when neither loading nor an error shows.
MapTimerFire(i) ==
  /\ i \in DOMAIN effects
  /\ effects[i].mapTimer
  /\ effects' = [effects EXCEPT ![i].mapTimer = FALSE]
  /\ IF page = "map" /\ ~loading /\ mapError = Null
     THEN mapRef' = TRUE /\ ViewUnchanged
     ELSE /\ ShowError("Error initializing map: Map element not found", FALSE, statusMessage)
          /\ UNCHANGED mapRef
  /\ UNCHANGED <<storeVars, validatorVars, accessLogs, routeVars, gateVars, buildVars,
                 authUser, user, inflight, pollCount, pushCount>>

\* The onSnapshot listener of run i is called with the document as the store
\* holds it.
Snapshot(i) ==
  /\ i \in DOMAIN effects
  /\ effects[i].subscribed
  /\ pushCount < MaxPushes
  /\ pushCount' = pushCount + 1
  /\ IF docs[url.sessionId].exists
     THEN Receive(SnapshotData(docs[url.sessionId]),
                  Shown("push", effects[i].token, docs[url.sessionId]))
     ELSE ShowError(IF mapVariant = "v1" THEN "SOS session not found or has expired"
                                         ELSE "SOS session not found or has expired.",
                    FALSE, statusMessage)
  /\ UNCHANGED <<storeVars, validatorVars, accessLogs, routeVars, gateVars, buildVars,
                 authUser, user, mapRef, effects, inflight, pollCount>>

\* The onSnapshot listener of run i fails (the read is denied, the store is
\* unreachable); a failed listener receives nothing further.
SnapshotError(i) ==
  /\ i \in DOMAIN effects
  /\ effects[i].subscribed
  /\ effects' = [effects EXCEPT ![i].subscribed = FALSE]
  /\ ShowError(IF mapVariant = "v1" THEN "Error loading SOS session data"
                                    ELSE "Error loading SOS session data.",
               FALSE, statusMessage)
  /\ UNCHANGED <<storeVars, validatorVars, accessLogs, routeVars, gateVars, buildVars,
                 authUser, user, mapRef, inflight, pollCount, pushCount>>

\* The polling interval of run i fires, in a visit of at most `most` polls.
PollTickUpTo(i, most) ==
  /\ i \in DOMAIN effects
  /\ effects[i].timer
  /\ pollCount < most
  /\ IssuePoll(i, FALSE, PollToken(i))
  /\ UNCHANGED <<storeVars, validatorVars, accessLogs, routeVars, gateVars, buildVars,
                 authUser, user, viewVars, effects, pushCount>>

\* The polling interval of run i fires.
PollTick(i) == PollTickUpTo(i, MaxPolls)

\* inflight without its k-th element.
Settled(k) == [j \in 1..(Len(inflight) - 1) |-> IF j < k THEN inflight[j] ELSE inflight[j + 1]]

\* The k-th call in flight settles: validateSosToken returns, the session is
\* converted and the poll continues to its end; after the first poll of a run
\* the interval is started.
PollSettle(k, response) ==
  /\ k \in DOMAIN inflight
  /\ response \in GetResponses(docs[url.sessionId])
  /\ inflight' = Settled(k)
  /\ effects' = IF inflight[k].first
                THEN [effects EXCEPT ![inflight[k].eff] = [@ EXCEPT !.timer = TRUE, !.pc = "live"]]
                ELSE effects
  /\ LET data == FetchedSession(MapValidation(inflight[k].token, response))
         how == [Shown("poll", inflight[k].token, response.body)
                   EXCEPT !.seq = inflight[k].seq]
     IN IF mapVariant = "v1"
        THEN IF data # {}
             THEN Receive(The(data), how)
             ELSE ShowError("Could not load SOS session data. Please try refreshing.",
                            FALSE, statusMessage)
        ELSE IF effects[inflight[k].eff].cleaned
             THEN ViewUnchanged
             ELSE IF data # {}
             THEN Receive(The(data), how)
             ELSE ShowError("Unable to load SOS session data.", loading, statusMessage)
  /\ UNCHANGED <<storeVars, validatorVars, accessLogs, routeVars, gateVars, buildVars,
                 authUser, user, mapRef, pollCount, pushCount>>

\* Variant of the unmount in which the cleanup also forgets the stored token.
MapUnmount_ForgetsToken ==
  /\ page = "map"
  /\ page' = "left"
  /\ effects' = Cleanup(effects)
  /\ localStorage' = [localStorage EXCEPT !.sos_access_token = Null]
  /\ UNCHANGED <<docs, validatorVars, accessLogs, url, gateVars, buildVars,
                 authUser, user, viewVars, inflight, pollCount, pushCount>>

\* The viewer leaves the map route: MapTracker unmounts and the latest run's
\* cleanup is called.
MapUnmount ==
  /\ page = "map"
  /\ page' = "left"
  /\ effects' = Cleanup(effects)
  /\ UNCHANGED <<storeVars, validatorVars, accessLogs, url, gateVars, buildVars,
                 authUser, user, viewVars, inflight, pollCount, pushCount>>

\* ------------------------------------------------------------------------
\* The application: a link is opened, on the gate or directly on the map
\* ------------------------------------------------------------------------
Init ==
  /\ docs \in [StoredSessionIds -> AppDocStates]
  /\ localStorage \in StorageStates
  /\ vpc = "idle"
  /\ vargs = NoArgs
  /\ vresponse = {}
  /\ vdoc = NoDoc
  /\ vresult = {}
  /\ vgets = 0
  /\ vprev = {}
  /\ accessLogs = [s \in StoredSessionIds |-> IF docs[s].exists THEN <<EarlierLog>> ELSE <<>>]
  /\ gateVariant \in GateVariants \cup {"none"}
  /\ page = IF gateVariant = "none" THEN "map" ELSE "gate"
  /\ url \in [sessionId : SessionIds, token : LinkTokens]
  /\ gpc = "start"
  /\ isValidating = TRUE
  /\ gateError = Null
  /\ gateGets = 0
  /\ gatePatches = 0
  /\ gateFetch = {}
  /\ mapVariant \in MapVariants
  /\ validatorVariant \in ValidatorVariants
  /\ authUser \in {Null, "viewer"}
  /\ user = Null
  /\ interceptorVariant = "v2"
  /\ installed = 1
  /\ fetchInput = {}
  /\ forwarded = {}
  /\ FreshMapTracker

\* The effect runs at mount and once more when `user` changes.
EffectRuns == 1..2

\* Calls that can be in flight: the polls of the interval and each run's first.
PollSlots == 1..(MaxPolls + 2)

Next ==
  \/ \E s \in StoredSessionIds, d \in AppDocStates : StoreUpdate(s, d)
  \/ processSession
  \/ validateSessionRest
  \/ validateSessionSdk
  \/ \E response \in UNION {GetResponses(d) : d \in AppDocStates} : GateGetSettle(response)
  \/ \E applied \in BOOLEAN : GatePatchSettle(applied)
  \/ GoToLogin
  \/ MapEffectStart
  \/ AuthStateChanged
  \/ \E i \in EffectRuns, ok \in BOOLEAN : SdkLoaded(i, ok)
  \/ \E i \in EffectRuns : MapTimerFire(i)
  \/ \E i \in EffectRuns : Snapshot(i)
  \/ \E i \in EffectRuns : SnapshotError(i)
  \/ \E i \in EffectRuns : PollTick(i)
  \/ \E k \in PollSlots, response \in UNION {GetResponses(d) : d \in AppDocStates} :
       PollSettle(k, response)
  \/ MapUnmount

Spec == Init /\ [][Next]_vars

\* ------------------------------------------------------------------------
\* Properties of the gate and the Map View (checked under Spec)
\* ------------------------------------------------------------------------
\* The Map View displays a session's data.
Displayed == page = "map" /\ session.loaded

\* C8 as stated: whenever the Map View displays a session, a non-empty token
\* accompanied the identifier and was checked against the document's access
\* token, on the push path as on the polling path and whichever gate the
\* viewer came through: the token equals the access token of the displayed
\* document when that document has one.
C8_TokenCheckedOnEveryPath ==
  Displayed =>
    /\ Truthy(shown.token)
    /\ Truthy(shown.docToken) => shown.token = shown.docToken

\* C8 amended: whenever the Map View displays a session, a non-empty token
\* accompanied the identifier; the token equals the displayed document's
\* access token when the session came over the polling path through the
\* comparing validator and the document has a non-empty access token.
C8_TokenAccompaniesSession ==
  Displayed =>
    /\ Truthy(shown.token)
    /\ (shown.path = "poll" /\ validatorVariant = "compare" /\ Truthy(shown.docToken))
       => shown.token = shown.docToken

C8_Witness ==
  /\ Displayed
  /\ gateVariant = "rest"
  /\ shown.path = "poll"
  /\ validatorVariant = "compare"
  /\ shown.token = "abc123"
  /\ shown.docToken = "abc123"

\* The gate's run was started on a link without sessionId or without token.
GateInputMissing ==
  /\ page \in {"gate", "login"}
  /\ gpc # "start"
  /\ ~Truthy(url.sessionId) \/ ~Truthy(url.token)

\* C9 as stated: a run of the REST or SDK gate on a link without sessionId
\* or without token is Failed as soon as the effect has run, and has issued
\* neither a document read nor an accessLogs write.
C9_MissingInputFailsWithoutRequest ==
  (gateVariant \in {"rest", "sdk"} /\ GateInputMissing)
  => /\ GateState = "Failed"
     /\ gateGets = 0
     /\ gatePatches = 0

\* C10 as stated: once the gate's effect has run to its end, the gate is in
\* exactly one of Redirecting and Failed.
C10_RunEndsRedirectingOrFailed ==
  (gateVariant \in GateVariants /\ gpc = "done")
  => GateState \in {"Redirecting", "Failed"}

\* What validateSosToken (TokenValidator.js) returns for the inputs of the
\* gate's document read f.
GateValidation(f) ==
  IF MissingParameters(url.sessionId, f.token, EnvProjectId, EnvApiKey)
  THEN MissingParametersResult
  ELSE validateSosTokenSettled(f.token, f.response)

\* C11 as stated: a run of the REST or SDK gate that has read the document
\* ends in Redirecting exactly when validateSosToken returns isValid = true
\* for the same token and the same response, and in Failed otherwise.
C11_GateAgreesWithValidator ==
  \A f \in gateFetch :
    (gateVariant \in {"rest", "sdk"} /\ gpc = "done")
    => /\ (GateState = "Redirecting") <=> GateValidation(f).isValid
       /\ GateState \in {"Redirecting", "Failed"}

\* The read found no document.
NotFoundCause(f) == f.response.kind = "http" /\ f.response.status = HTTP_NOT_FOUND

\* The read returned a document whose access token is not the link's token.
WrongTokenCause(f) ==
  /\ f.response.kind = "http"
  /\ ResponseOk(f.response)
  /\ f.token # RestGateToken(f.response.body)

\* C13 as stated: a gate run that failed after reading the document shows
\* the invalid-link message for a wrong token and only for it, and a missing
\* document shows a message that is neither that one nor the generic one.
C13_MessagesDistinguishCauses ==
  \A f \in gateFetch :
    (gateVariant \in {"rest", "sdk"} /\ page = "gate" /\ GateState = "Failed" /\ Truthy(f.token))
    => /\ WrongTokenCause(f) => gateError = InvalidLinkMessage
       /\ ~WrongTokenCause(f) => gateError # InvalidLinkMessage
       /\ NotFoundCause(f) => gateError # GenericFailureMessage

\* C15 as stated: the gate's accessLogs write keeps every entry that was in
\* the array and puts the new entry after them.
C15_AccessLogsAppendOnly ==
  [][ \A s \in StoredSessionIds :
        (gpc = "patch" /\ gpc' = "done" /\ accessLogs'[s] # accessLogs[s])
        => /\ Len(accessLogs'[s]) = Len(accessLogs[s]) + 1
           /\ SubSeq(accessLogs'[s], 1, Len(accessLogs[s])) = accessLogs[s]
    ]_vars

C14_AppendFailureSwallowed ==
  [][ (gpc = "patch" /\ gpc' = "done" /\ Truthy(url.token))
      => /\ page' = "map"
         /\ localStorage'.sos_access_token = url.token
         /\ gateError' = Null
         /\ isValidating' = isValidating
    ]_vars

\* The gate redirected although its accessLogs write was not applied.
C14_Witness ==
  /\ gateVariant \in {"rest", "sdk"} /\ gpc = "done" /\ gatePatches = 1
  /\ page = "map" /\ effects = <<>>
  /\ docs["s1"].exists
  /\ accessLogs["s1"] = <<EarlierLog>>
  /\ localStorage.sos_access_token = "abc123"
  /\ gateError = Null

C17_MissingTokenBeforeNetwork ==
  (/\ page \in {"map", "left"} /\ effects # <<>>
   /\ Truthy(url.sessionId)
   /\ ~Truthy(url.token) /\ ~Truthy(localStorage.sos_access_token))
  => /\ \A i \in DOMAIN effects :
          /\ effects[i].pc = "end" /\ effects[i].token = Null
          /\ ~effects[i].subscribed /\ ~effects[i].timer /\ ~effects[i].mapTimer
     /\ inflight = <<>> /\ pollCount = 0 /\ pushCount = 0
     /\ ~mapRef
     /\ mapError = MissingAccessTokenMessage
     /\ ~loading
     /\ ~session.loaded

C17_Witness ==
  /\ page = "map" /\ effects # <<>>
  /\ url = [sessionId |-> "s1", token |-> ""]
  /\ localStorage.sos_access_token = Null
  /\ mapError = MissingAccessTokenMessage
  /\ ~loading

\* C18 as stated: on the polling path, once a poll has rendered a document
\* and no error shows, the settling of a later poll, failed or not, leaves
\* the view without an error and with its session.
C18_FailedPollShowsNoError ==
  [][ (/\ page = "map"
       /\ Len(inflight') < Len(inflight)
       /\ session.loaded /\ shown.path = "poll"
       /\ mapError = Null)
      => /\ mapError' = Null
         /\ session'.loaded
    ]_vars

\* C19 as stated: no run of the effect whose cleanup has been called holds an
\* active polling timer.
C19_TimerCancelledOnTeardown ==
  \A i \in DOMAIN effects : effects[i].cleaned => ~effects[i].timer

\* C20 as stated: no run of the effect whose cleanup has been called holds an
\* open snapshot listener.
C20_SubscriptionClosedOnTeardown ==
  \A i \in DOMAIN effects : effects[i].cleaned => ~effects[i].subscribed

\* C21 as stated: when a validate-and-fetch call settles after the Map View
\* was unmounted, the session, the loading and error state, the marker and
\* the accuracy overlays stay as they were.
C21_LateResponseDiscarded ==
  [][ (page = "left" /\ Len(inflight') < Len(inflight))
      => UNCHANGED <<session, loading, mapError, statusMessage, markerRef, circles>>
    ]_vars

\* C22 as stated: when a poll of a Map View that has no polling timer yet
\* settles while the store holds no document for the session identifier,
\* no polling timer is started and the view shows the session-not-found
\* message.
C22_NotFoundStartsNothing ==
  [][ (/\ page = "map" /\ Truthy(url.sessionId)
       /\ ~docs[url.sessionId].exists
       /\ Len(inflight') < Len(inflight)
       /\ \A i \in DOMAIN effects : ~effects[i].timer /\ ~effects[i].cleaned)
      => /\ \A i \in DOMAIN effects' : ~effects'[i].timer
         /\ mapError' \in {"SOS session not found or has expired",
                           "SOS session not found or has expired."}
    ]_vars

\* The failure messages of the polling path, shown for every poll that
\* yields no session, whatever the cause.
PollFailureMessages ==
  {"Could not load SOS session data. Please try refreshing.",
   "Unable to load SOS session data."}

\* Every call in flight carries a token that differs from the non-empty
\* access token of the stored document.
PollsCarryWrongToken ==
  /\ Truthy(url.sessionId)
  /\ docs[url.sessionId].exists
  /\ Truthy(StoredAccessToken(docs[url.sessionId]))
  /\ \A k \in DOMAIN inflight : inflight[k].token # StoredAccessToken(docs[url.sessionId])

\* C23 as stated: when a poll with a token that differs from the document's
\* access token settles in the mounted Map View of an anonymous viewer, the
\* view shows an error that names the invalid link, not the message of any
\* other failed poll, and the marker and the overlays stay as they were; on
\* the polling path a marker exists only when a poll was authorized and
\* displayed.
C23_WrongTokenInvalidLink ==
  [][ /\ (/\ page = "map" /\ authUser = Null
             /\ PollsCarryWrongToken /\ Len(inflight') < Len(inflight))
         => /\ mapError' # Null
            /\ mapError' \notin PollFailureMessages
            /\ UNCHANGED <<markerRef, circles>>
      /\ (page' = "map" /\ authUser = Null /\ markerRef' # {})
         => (session'.loaded /\ shown'.path = "poll")
    ]_vars

\* ------------------------------------------------------------------------
\* The Map View opened directly, with a store that answers and a maps script
\* that loads: timers fire, promises settle
\* ------------------------------------------------------------------------
InitLive == Init /\ gateVariant = "none"

\* The answers of a reachable store.
StoreAnswers == {StoreAnswer(d) : d \in AppDocStates}

NextLive ==
  \/ \E s \in StoredSessionIds, d \in AppDocStates : StoreUpdate(s, d)
  \/ MapEffectStart
  \/ AuthStateChanged
  \/ \E i \in EffectRuns : SdkLoaded(i, TRUE)
  \/ \E i \in EffectRuns : MapTimerFire(i)
  \/ \E i \in EffectRuns : Snapshot(i)
  \/ \E i \in EffectRuns : PollTick(i)
  \/ \E k \in PollSlots, response \in StoreAnswers : PollSettle(k, response)
  \/ MapUnmount

\* The browser runs effects after the render, fires due timers and calls
\* back settled promises; the store delivers the subscription's first
\* snapshot, and onAuthStateChanged reports the signed-in user.
Fairness ==
  /\ WF_vars(MapEffectStart)
  /\ WF_vars(AuthStateChanged)
  /\ WF_vars(\E i \in EffectRuns : SdkLoaded(i, TRUE))
  /\ WF_vars(\E i \in EffectRuns : MapTimerFire(i))
  /\ WF_vars(\E i \in EffectRuns : Snapshot(i))
  /\ WF_vars(\E i \in EffectRuns : PollTick(i))
  /\ WF_vars(\E k \in PollSlots, response \in StoreAnswers : PollSettle(k, response))

SpecLive == InitLive /\ [][NextLive]_vars /\ Fairness

\* The spec's scenario: an anonymous viewer stays on the map route of s1
\* with the token abc123, and the document keeps accessToken abc123 and the
\* location (1.0, 2.0) with accuracy 15.
AnonymousViewerOfLocA ==
  /\ page = "map"
  /\ authUser = Null
  /\ url.sessionId = "s1"
  /\ ResolveToken(url.token, localStorage.sos_access_token) = "abc123"
  /\ docs["s1"] = DocL(TRUE, TRUE, "abc123", LocA)

\* The map is rendered with the marker on it at (1.0, 2.0) and a 15-unit
\* accuracy overlay.
MarkerAndOverlayOnMap ==
  /\ page = "map" /\ ~loading /\ mapError = Null
  /\ mapRef
  /\ markerRef = {Marker(1, 2, TRUE)}
  /\ \E k \in DOMAIN circles : circles[k] = Circle(15, TRUE)

C25_StrategyFollowsSignIn ==
  (page = "map" /\ effects # <<>> /\ effects[Len(effects)].pc \in {"poll0", "live"})
  => /\ user # Null => /\ effects[Len(effects)].user # Null
                       /\ ~effects[Len(effects)].timer
     /\ user = Null => /\ effects[Len(effects)].user = Null
                       /\ ~effects[Len(effects)].subscribed

\* C26 as stated: the token the Map View reads from the gate's redirect URL
\* is the token the gate read from the link, and getAccessToken on a URL
\* built by addTokenToUrl returns the token that was added, for tokens with
\* URL-reserved characters as for plain ones.
C26_TokenRoundTrip ==
  [][ /\ (page = "gate" /\ page' = "map") => url'.token = url.token
      /\ Truthy(url.token)
         => getAccessToken(addTokenToUrl(Null, url.token), localStorage.sos_access_token)
              = url.token
    ]_vars

\* ------------------------------------------------------------------------
\* The application with the debug dashboard mounted on the map route
\* ------------------------------------------------------------------------
\* The dashboard's "Clear Storage" button: the three keys are removed and
\* the page is reloaded, so MapTracker and AuthProvider start afresh on the
\* same URL.
ClearStorage ==
  /\ page = "map"
  /\ localStorage' = EmptyStorage
  /\ user' = Null
  /\ session' = NoSession
  /\ loading' = TRUE
  /\ mapError' = Null
  /\ statusMessage' = "Preparing live tracker..."
  /\ mapRef' = FALSE
  /\ markerRef' = {}
  /\ circles' = <<>>
  /\ shown' = NotShown
  /\ effects' = <<>>
  /\ inflight' = <<>>
  /\ pollCount' = 0
  /\ pushCount' = 0
  /\ UNCHANGED <<docs, validatorVars, accessLogs, routeVars, gateVars, buildVars, authUser>>

NextDebug ==
  \/ Next
  \/ ClearStorage

SpecDebug == Init /\ [][NextDebug]_vars

\* The keys of the stored access credential.
CredentialKeys == {"sos_access_token", "sos_session_id"}

\* C27: a step after which a key of the stored credential no longer has the
\* value it had, and has none at all, is the debug Clear Storage action; no
\* step of the gate, the Map View or the validator removes or empties a key.
C27_OnlyClearStorageRemoves ==
  [][ (\E key \in CredentialKeys :
         localStorage[key] # Null /\ ~Truthy(localStorage'[key]))
      => ClearStorage
    ]_vars

\* Clear Storage emptied the storage that the REST gate had filled.
C27_Witness ==
  /\ gateVariant = "rest" /\ gpc = "done"
  /\ page = "map"
  /\ effects = <<>>
  /\ localStorage = EmptyStorage

\* The snapshot listener's messages.
SessionExpiredMessages ==
  {"SOS session not found or has expired", "SOS session not found or has expired."}

SubscriptionErrorMessages ==
  {"Error loading SOS session data", "Error loading SOS session data."}

\* C28 as stated: in a mounted Map View, a push that delivers an existing
\* document leaves the view not loading, without error and showing that
\* document, also when an earlier push had set the SessionExpired or the
\* SubscriptionError message; a push that reports the document absent leaves the SessionExpired message, and a failure of the
\* listener the SubscriptionError message.
C28_PushSetsViewState ==
  [][ /\ (/\ page = "map" /\ pushCount' = pushCount + 1 /\ docs[url.sessionId].exists
          /\ mapError \in {Null} \cup SessionExpiredMessages \cup SubscriptionErrorMessages)
         => /\ ~loading'
            /\ mapError' = Null
            /\ session' = SnapshotData(docs[url.sessionId])
      /\ (page = "map" /\ pushCount' = pushCount + 1 /\ ~docs[url.sessionId].exists)
         => /\ ~loading'
            /\ mapError' \in SessionExpiredMessages
      /\ (/\ page = "map" /\ page' = "map" /\ Len(effects') = Len(effects)
          /\ \E i \in DOMAIN effects : effects[i].subscribed /\ ~effects'[i].subscribed)
         => /\ ~loading'
            /\ mapError' \in SubscriptionErrorMessages
    ]_vars

\* C29 as stated: while a poll of a running Map View effect is pending, the
\* polling timer of that run is active, so ticks go on issuing polls however
\* long the request hangs; and the settling of a poll, failed or not, issues
\* no poll itself.
C29_TicksIndependentOfPending ==
  [][ /\ \A k \in DOMAIN inflight :
           (page = "map" /\ ~effects[inflight[k].eff].cleaned)
           => effects[inflight[k].eff].timer
      /\ Len(inflight') < Len(inflight) => pollCount' = pollCount
    ]_vars

\* C30: the Map View holds at most one marker; once it holds one, every step
\* leaves it the same marker, attached as it was created; the marker appears
\* in a step that applies a poll response or a push, and whenever a mounted
\* view displays a session with a coordinate the marker stands at that
\* coordinate.
C30_MarkerLifecycle ==
  [][ /\ Cardinality(markerRef') <= 1
      /\ markerRef # {}
         => /\ markerRef' # {}
            /\ \A m \in markerRef, n \in markerRef' : n.onMap = m.onMap
      /\ (markerRef = {} /\ markerRef' # {})
         => (Len(inflight') < Len(inflight) \/ pushCount' = pushCount + 1)
      /\ (page' = "map" /\ session'.loaded /\ session'.location.present)
         => \E m \in markerRef' : /\ m.latitude = session'.location.latitude
                                  /\ m.longitude = session'.location.longitude
    ]_vars

\* The marker was created at (1.0, 2.0) together with its accuracy circle
\* and then moved to (3, 4) by an update without accuracy, which took the
\* circle off the map.
C30_Witness ==
  /\ mapVariant = "v2"
  /\ page = "map"
  /\ markerRef = {Marker(3, 4, TRUE)}
  /\ circles = <<Circle(15, FALSE)>>

\* The accuracy overlays that are attached to the map.
OverlaysShown == {k \in DOMAIN circles : circles[k].onMap}

\* The displayed session's location carries a positive accuracy.
HasPositiveAccuracy ==
  /\ session.location.accuracy # {}
  /\ The(session.location.accuracy) > 0

\* C31 as stated: at most one accuracy overlay is ever shown; while a mounted
\* Map View with a map displays a session with a location, an overlay is
\* shown exactly when that location has a positive accuracy.
C31_OverlayFollowsAccuracy ==
  /\ Cardinality(OverlaysShown) <= 1
  /\ (page = "map" /\ mapRef /\ session.loaded /\ session.location.present)
     => (OverlaysShown # {} <=> HasPositiveAccuracy)

\* C32 as stated: a poll response that the Map View applies is decoded to
\* the document's own values: the location is present exactly when the
\* document has one, latitude and longitude are the document's numbers
\* whether written as doubles or as integers, and an absent accuracy is
\* absent.
C32_DecodeKeepsNumbers ==
  [][ (/\ page = "map"
       /\ Len(inflight') < Len(inflight)
       /\ session' # session)
      => session' = SnapshotData(docs[url.sessionId])
    ]_vars

\* The runs of the effect that hold an open snapshot listener, and those
\* that hold a polling timer.
Subscriptions == {i \in DOMAIN effects : effects[i].subscribed}

PollingTimers == {i \in DOMAIN effects : effects[i].timer}

\* C33 as stated: a Map View never holds a snapshot listener and a polling
\* timer together, and never more than one polling timer.
C33_OneFetchMechanism ==
  /\ Subscriptions = {} \/ PollingTimers = {}
  /\ Cardinality(PollingTimers) <= 1

\* ------------------------------------------------------------------------
\* An anonymous viewer's longer visit of the Map View: polls overlap
\* ------------------------------------------------------------------------
\* Polls of one visit, enough for two interval polls to be pending together.
MaxPollsLong == 3

InitLongPoll == Init /\ gateVariant = "none" /\ authUser = Null

NextLongPoll ==
  \/ \E s \in StoredSessionIds, d \in AppDocStates : StoreUpdate(s, d)
  \/ MapEffectStart
  \/ \E i \in EffectRuns, ok \in BOOLEAN : SdkLoaded(i, ok)
  \/ \E i \in EffectRuns : MapTimerFire(i)
  \/ \E i \in EffectRuns : PollTickUpTo(i, MaxPollsLong)
  \/ \E k \in 1..MaxPollsLong, response \in UNION {GetResponses(d) : d \in AppDocStates} :
       PollSettle(k, response)
  \/ MapUnmount

SpecLongPoll == InitLongPoll /\ [][NextLongPoll]_vars

\* C34 as stated: on the polling path the responses reach the view in the
\* order of their requests: a response that a mounted Map View applies over
\* a displayed poll result belongs to a poll issued later than the one
\* displayed.
C34_NoStaleResponseApplied ==
  [][ (/\ page = "map"
       /\ Len(inflight') < Len(inflight)
       /\ shown.path = "poll" /\ shown'.path = "poll"
       /\ shown' # shown)
      => shown'.seq > shown.seq
    ]_vars

\* The error messages that a failed poll or push leaves.
FetchErrorMessages ==
  PollFailureMessages \cup SessionExpiredMessages \cup SubscriptionErrorMessages

\* C35 as stated: when a mounted Map View that shows the error of a failed
\* poll or push receives a document by a later poll or push, it shows that
\* document and no error.
C35_RecoversFromFetchError ==
  [][ (/\ page = "map"
       /\ mapError \in FetchErrorMessages
       /\ Len(inflight') < Len(inflight) \/ pushCount' = pushCount + 1
       /\ session'.loaded
       /\ session' # session \/ shown' # shown)
      => /\ mapError' = Null
         /\ ~loading'
    ]_vars

\* C36 as stated: every marker that exists is attached to the view's map.
C36_MarkerAttachedToMap ==
  \A m \in markerRef : mapRef /\ m.onMap

\* C37 as stated: while the gate shows a failure, browser storage is as an
\* earlier visit left it (no session id, no public-access flag, the earlier
\* token if any) and no document's accessLogs holds an entry of this run.
C37_FailedRunWroteNothing ==
  (gateVariant \in GateVariants /\ page = "gate" /\ GateState = "Failed")
  => /\ localStorage \in StorageStates
     /\ \A s \in StoredSessionIds :
          \A k \in DOMAIN accessLogs[s] : accessLogs[s][k] = EarlierLog

\* What the gate's render returns: the validating view while isValidating,
\* else the error view when error is set, else null.
GateRender ==
  IF isValidating THEN "validating"
  ELSE IF gateError # Null THEN "error"
  ELSE "null"

\* C38: in the REST gate and the SDK gate, isValidating = false implies that
\* error is set; the render never returns null.
C38_NotValidatingImpliesError ==
  gateVariant \in {"rest", "sdk"}
  => /\ ~isValidating => gateError # Null
     /\ GateRender # "null"

\* The SDK gate ended its validation with the missing-token error after it
\* had read the document.
C38_Witness ==
  /\ gateVariant = "sdk" /\ page = "gate" /\ gpc = "done"
  /\ gateGets = 1
  /\ ~isValidating
  /\ gateError = MissingTokenMessage
  /\ GateRender = "error"

\* C39 as stated (checked under SpecValidator): a call whose fetched
\* document has an accessToken field holding the empty string, made with a
\* non-empty token, does not resolve to isValid = true.
C39_EmptyAccessTokenDenies ==
  \A r \in vresponse :
    (ResolvedWith(r) /\ CarriesDocument(r)
       /\ r.body.accessToken = "" /\ vargs.token # "")
    => \A v \in vresult : ~v.isValid


\* ------------------------------------------------------------------------
\* The global fetch interceptor: firebaseInterceptor.ts
\* ------------------------------------------------------------------------
InterceptorVariants == {"v1", "v2"}

MaxInstalls == 2

\* One query parameter as the URL's text carries it.
Param(name, value) == [name |-> name, value |-> value]

\* An argument of fetch().  form: a string URL or a Request object;
\* firestore, sos, streaming: what url.includes() answers for
\* 'firestore.googleapis.com', for 'sos_sessions', and for '/Listen/' or
\* 'channel?'; query: the parameters of the URL in order.
FetchRequest(form, method, firestore, sos, streaming, query) ==
  [form |-> form, method |-> method, firestore |-> firestore, sos |-> sos,
   streaming |-> streaming, query |-> query]

\* The query strings callers build: none, the API key alone, the key and a
\* token (validateSosToken), a token alone.
CallerQueries ==
  { <<>>,
    <<Param("key", "key")>>,
    <<Param("key", "key"), Param("token", "abc123")>>,
    <<Param("token", "wrong")>> }

FetchRequests ==
  { FetchRequest(form, method, firestore, sos, streaming, query) :
      form \in {"string", "Request"}, method \in {"GET", "PATCH"},
      firestore \in BOOLEAN, sos \in BOOLEAN, streaming \in BOOLEAN,
      query \in CallerQueries }

TokenParams(query) == {i \in DOMAIN query : query[i].name = "token"}

\* urlObj.searchParams.has('token')
HasToken(query) == TokenParams(query) # {}

\* `${url}${separator}token=${encodeURIComponent(token)}`
AppendToken(query, token) == Append(query, Param("token", encodeURIComponent(token)))

\* searchParams.set('token', token) followed by toString(): the first token
\* parameter takes the value and the others are dropped; without one the
\* parameter is appended.
SetToken(query, token) ==
  IF HasToken(query)
  THEN LET first == CHOOSE i \in TokenParams(query) : \A j \in TokenParams(query) : i <= j
       IN SelectSeq([i \in DOMAIN query |->
                       IF i = first THEN Param("token", FormEncode(token))
                       ELSE IF query[i].name = "token" THEN Param("", "")
                       ELSE query[i]],
                    LAMBDA p : p.name # "")
  ELSE Append(query, Param("token", FormEncode(token)))

\* newFetch of the first file: what it passes to originalFetch.
interceptV1(input, token) ==
  IF input.firestore /\ input.sos /\ Truthy(token)
  THEN IF input.form = "Request"
       THEN [input EXCEPT !.query = SetToken(input.query, token)]
       ELSE [input EXCEPT !.query = AppendToken(input.query, token)]
  ELSE input

\* newFetch of the second file: what it passes to originalFetch.
interceptV2(input, token) ==
  IF ~input.firestore \/ ~Truthy(token) THEN input
  ELSE IF input.streaming THEN input
  ELSE IF ~input.sos THEN input
  ELSE IF HasToken(input.query) THEN input
  ELSE IF input.form = "string"
  THEN [input EXCEPT !.query = AppendToken(input.query, token)]
  ELSE IF input.method = "GET"
  THEN [input EXCEPT !.query = SetToken(input.query, token)]
  ELSE input

intercept(variant, input, token) ==
  IF variant = "v1" THEN interceptV1(input, token) ELSE interceptV2(input, token)

\* window.fetch after n installations: each newFetch hands its result to the
\* fetch it replaced.
RECURSIVE ThroughInterceptors(_, _, _, _)
ThroughInterceptors(n, variant, input, token) ==
  IF n = 0 THEN input
  ELSE ThroughInterceptors(n - 1, variant, intercept(variant, input, token), token)

\* The token newFetch reads at each call.
InterceptorToken == ResolveToken(url.token, localStorage.sos_access_token)

\* The first file rebuilds a Request with its body; for a body that is a
\* stream the constructor throws in browsers that demand the duplex option,
\* and nothing is fetched.
RebuildThrows(input, token) ==
  /\ interceptorVariant = "v1"
  /\ installed > 0
  /\ input.form = "Request"
  /\ input.method # "GET"
  /\ input.firestore /\ input.sos /\ Truthy(token)

\* The page is loaded: nothing is installed and no request was made.
InitInterceptor ==
  /\ docs \in [StoredSessionIds -> {NoDoc}]
  /\ localStorage \in StorageStates
  /\ vpc = "idle"
  /\ vargs = NoArgs
  /\ vresponse = {}
  /\ vdoc = NoDoc
  /\ vresult = {}
  /\ vgets = 0
  /\ vprev = {}
  /\ accessLogs = [s \in StoredSessionIds |-> <<>>]
  /\ page = "none"
  /\ url \in [sessionId : {"s1"}, token : LinkTokens]
  /\ gateVariant = "none"
  /\ gpc = "start"
  /\ isValidating = TRUE
  /\ gateError = Null
  /\ gateGets = 0
  /\ gatePatches = 0
  /\ gateFetch = {}
  /\ mapVariant = "v2"
  /\ validatorVariant = "compare"
  /\ authUser = Null
  /\ user = Null
  /\ interceptorVariant \in InterceptorVariants
  /\ installed = 0
  /\ fetchInput = {}
  /\ forwarded = {}
  /\ FreshMapTracker

\* setupFirebaseTokenInterceptor(): window.fetch is wrapped once more.
InstallInterceptor ==
  /\ installed < MaxInstalls
  /\ installed' = installed + 1
  /\ UNCHANGED <<storeVars, validatorVars, accessLogs, routeVars, gateVars,
                 mapVariant, validatorVariant, interceptorVariant, fetchInput, forwarded,
                 authUser, user, viewVars, fetchVars>>

\* window.fetch(input) up to the call of the browser's own fetch.
FetchCall(input) ==
  /\ fetchInput' = {[input |-> input, wrappers |-> installed]}
  /\ \/ forwarded' = {ThroughInterceptors(installed, interceptorVariant, input, InterceptorToken)}
     \/ /\ RebuildThrows(input, InterceptorToken)
        /\ forwarded' = {}
  /\ UNCHANGED <<storeVars, validatorVars, accessLogs, routeVars, gateVars,
                 mapVariant, validatorVariant, interceptorVariant, installed,
                 authUser, user, viewVars, fetchVars>>

NextInterceptor ==
  \/ InstallInterceptor
  \/ \E input \in FetchRequests : FetchCall(input)

SpecInterceptor == InitInterceptor /\ [][NextInterceptor]_vars

\* ------------------------------------------------------------------------
\* Properties of the fetch interceptor (checked under SpecInterceptor)
\* ------------------------------------------------------------------------
\* A request for a sos_sessions document, as opposed to a stream.
DocumentRequest(r) == r.firestore /\ r.sos /\ ~r.streaming

\* C40: a sos_sessions document request leaves the interceptor with at most
\* one token parameter, also when the caller's URL had one and when the
\* interceptor is installed more than once, in which case the request is the
\* one a single installation forwards; requests to other hosts and
\* streaming requests are forwarded as they were passed.
C40_AtMostOneTokenParameter ==
  \A call \in fetchInput : \A r \in forwarded :
    /\ DocumentRequest(call.input) => Cardinality(TokenParams(r.query)) <= 1
    /\ call.wrappers >= 1 => r = intercept(interceptorVariant, call.input, InterceptorToken)
    /\ (~call.input.firestore \/ call.input.streaming) => r = call.input

====
